---- MODULE Spec2Model ----
(***************************************************************************)
(* A model of the cdi container (vsamtuc/container): the registry of       *)
(* resource managers, the scopes and their asset storage, and the          *)
(* instantiation engine container::get(r, phase) with its two deferred     *)
(* work stacks.  The engine is re-entrant (it recurses through the bound   *)
(* arguments of providers, injectors and initializers), so the C++ call    *)
(* stack is explicit: `stack` is a sequence of frames, the last one being  *)
(* the running call.                                                       *)
(***************************************************************************)
EXTENDS Integers, Sequences, FiniteSets, TLC

(* ------------------------------------------------------------------ *)
(* Bounds of the model                                                  *)
(* ------------------------------------------------------------------ *)
\* total number of lifecycle callbacks the client registers
MaxRegs == 3
\* number of instances the providers may return in one run
MaxInst == 3
\* depth of the C++ call stack that is explored
MaxDepth == 8
\* number of times a user callback raises in one run
MaxFaults == 1
\* live GuardedScope objects of the tag
MaxGuards == 2
\* nested LocalScope objects of the tag
MaxNest == 2
\* number of times the disposer is started on one instance
MaxDisposals == 2
\* calls of container::clear() that return
MaxClears == 1
\* length of the initializer list a set of qualifiers is constructed from
MaxList == 2
\* bits of a hash code (of size_t)
HashWidth == 8

(* ------------------------------------------------------------------ *)
(* Program constants                                                    *)
(* ------------------------------------------------------------------ *)
\* enum class Phase
allocated == 0
provided == 1
injected == 2
created == 3
disposed == 4
\* an empty std::any (also the null instance pointer)
NoInst == 0
\* the low 16 bits of 0x9e3779b9, the constant of boost::hash_combine
GoldenLow == 31161

\* the resources the client program declares handles for
Res == {"A", "B"}
\* the scope template argument of a resource handle
ScopeKinds == {"Global", "New", "Guarded", "Local"}
\* the scope assignments explored (A and B are interchangeable)
ScopeConfigs ==
    { [A |-> "Global", B |-> "Global"],
      [A |-> "Global", B |-> "New"],
      [A |-> "New", B |-> "New"] }
\* the resource arguments a registered callable is bound to
DepLists == {<<>>} \cup { <<d>> : d \in Res }

VARIABLES
    scopeOf,             \* resource -> scope kind (fixed by the handle's type)
    rms,                 \* container::rms : resource -> manager record
    assets,              \* asset storage: pointer -> asset (or Absent)
    deferred_injection,  \* container::deferred_injection (top is the last element)
    deferred_creation,   \* container::deferred_creation (top is the last element)
    stack,               \* the call stack of the engine
    result,              \* outcome of the last client call of get(r)
    other,               \* instance -> the instance its `other` field points to
    log,                 \* instance -> the lifecycle calls made on it, in order
    returned,            \* resource -> instances successful get(r) calls returned
    faults,              \* user callbacks that raised so far
    started,             \* the client has requested an instance and is not
                         \* registering callbacks
    clear_marks,         \* for each container::clear() that returned, the
                         \* number of instances made before it
    qsets,               \* the sets of qualifiers of the client
    answer,              \* the last call on a set of qualifiers
    guard_n,             \* GuardedScope<Tag>::_n, the turnstile count: a size_t
                         \* written as the residue nearest to 0, so -1
                         \* is the value of --_n at 0 (SIZE_MAX)
    guard_objs,          \* the GuardedScope<Tag> objects alive
    current_ctx          \* LocalScope<Tag>::current_ctx : 0 is nullptr, k the
                         \* context of the k-th nested LocalScope object

vars == << scopeOf, rms, assets, deferred_injection, deferred_creation, stack,
           result, other, log, returned, faults, started, clear_marks,
           guard_n, guard_objs, current_ctx, qsets, answer >>

\* the variables of the container, its scopes and its client
cvars == << scopeOf, rms, assets, deferred_injection, deferred_creation, stack,
            result, other, log, returned, faults, started, clear_marks,
            guard_n, guard_objs, current_ctx >>

(* ------------------------------------------------------------------ *)
(* Assets, contexts and scopes                                          *)
(* ------------------------------------------------------------------ *)
\* address of the asset of r in GlobalScope::global_context
GlobalPtr(r) == <<"global", r>>
\* address of the function-local static asset of NewScope::get_asset
StaticPtr == <<"new", "static">>
\* address of the asset of r in GuardedScope<Tag>::ctx
GuardedPtr(r) == <<"guarded", r>>
\* address of the asset of r in the context of the k-th LocalScope object
LocalPtr(k, r) == <<"local", k, r>>
Ptrs == { GlobalPtr(r) : r \in Res } \cup { StaticPtr }
        \cup { GuardedPtr(r) : r \in Res }
        \cup { LocalPtr(k, r) : k \in 1..MaxNest, r \in Res }

\* the contexts: the global one, the guarded one, one per LocalScope object
Contexts == { <<"global">>, <<"guarded">> } \cup { <<"local", k>> : k \in 1..MaxNest }
\* the address of the asset of r in context c
SlotOf(c, r) ==
    CASE c[1] = "global" -> GlobalPtr(r)
      [] c[1] = "guarded" -> GuardedPtr(r)
      [] c[1] = "local" -> LocalPtr(c[2], r)

\* no entry in the asset map
Absent == [obj |-> NoInst, ph |-> -1]
\* asset(std::any()) : empty value, phase allocated
NewAsset == [obj |-> NoInst, ph |-> allocated]

\* a resource manager without any registration (contextual's constructor)
\* declared = FALSE stands for "no entry in container::rms"
\* implicit is history, not a member: the manager exists only because the
\* resource was named as a dependency (unwrap_inject called res.manager()),
\* the client has not declared or configured the resource itself.
\* provDeps, initDeps, dispDeps are the resource arguments bound into func;
\* provInjected, initInjected, dispInjected the lists prov.injected,
\* init.injected, disp.injected
NoManager ==
    [declared |-> FALSE, provSet |-> FALSE, provDeps |-> <<>>,
     provInjected |-> <<>>, injectors |-> <<>>, initSet |-> FALSE, initDeps |-> <<>>,
     initInjected |-> <<>>, dispSet |-> FALSE, dispDeps |-> <<>>,
     dispInjected |-> <<>>, implicit |-> FALSE]
EmptyManager == [NoManager EXCEPT !.declared = TRUE]

\* a guarded scope that reports itself active whatever its turnstile count
is_active_GuardedAlways(sc) ==
    CASE sc = "Local" -> current_ctx # 0
      [] OTHER -> TRUE

\* GuardedScope::is_active / LocalScope::is_active (the others always are);
\* _n > 0 compares a size_t, true of every value but 0
is_active(sc) ==
    CASE sc = "Guarded" -> guard_n # 0
      [] sc = "Local" -> current_ctx # 0
      [] OTHER -> TRUE

\* a LocalScope whose objects all work on the context of the outermost one
CtxOf_Outermost(sc) ==
    CASE sc = "Global" -> <<"global">>
      [] sc = "Guarded" -> <<"guarded">>
      [] sc = "Local" -> <<"local", 1>>

\* the context the scope's get_asset and drop_asset work on, scope active
CtxOf(sc) ==
    CASE sc = "Global" -> <<"global">>
      [] sc = "Guarded" -> <<"guarded">>
      [] sc = "Local" -> <<"local", current_ctx>>

\* a context that never finds an entry: every request allocates anew
get_asset_AlwaysNew(sc, as, r) ==
    IF sc = "New"
    THEN [as |-> [as EXCEPT ![StaticPtr] = NewAsset], ptr |-> StaticPtr, isnew |-> TRUE]
    ELSE [as |-> [as EXCEPT ![SlotOf(CtxOf(sc), r)] = NewAsset],
          ptr |-> SlotOf(CtxOf(sc), r), isnew |-> TRUE]

\* context::get / NewScope::get_asset : [as, ptr, isnew]
get_asset(sc, as, r) ==
    IF sc = "New"
    THEN [as |-> [as EXCEPT ![StaticPtr] = NewAsset], ptr |-> StaticPtr, isnew |-> TRUE]
    ELSE IF as[SlotOf(CtxOf(sc), r)] = Absent
         THEN [as |-> [as EXCEPT ![SlotOf(CtxOf(sc), r)] = NewAsset],
               ptr |-> SlotOf(CtxOf(sc), r), isnew |-> TRUE]
         ELSE [as |-> as, ptr |-> SlotOf(CtxOf(sc), r), isnew |-> FALSE]

\* a drop that leaves the entry in the asset map
drop_asset_Keep(sc, as, r) == as

\* context::drop / NewScope::drop_asset.  The catch block of container::get
\* calls it for an asset it obtained from get_asset during the same request,
\* so the scope is active and the inactive_scope_error branch is not taken.
drop_asset(sc, as, r) ==
    IF sc = "New" THEN as ELSE [as EXCEPT ![SlotOf(CtxOf(sc), r)] = Absent]

(* ------------------------------------------------------------------ *)
(* Registry and registration                                            *)
(* ------------------------------------------------------------------ *)
\* a lookup that finds a manager for every resource
get_declared_Always(m, r) == TRUE

\* container::get_declared : is there a manager for r
get_declared(m, r) == m[r].declared

\* a declare that creates a manager at every call
declare_Fresh(m, r) == [m EXCEPT ![r] = EmptyManager]

\* container::get(const Resource&) : the manager of r, created if needed
declare(m, r) ==
    IF m[r].declared THEN [m EXCEPT ![r].implicit = FALSE]
    ELSE [m EXCEPT ![r] = EmptyManager]

RECURSIVE declare_all(_, _)
\* detail::call::unwrap_inject calls res.manager() for every resource argument
declare_all(m, deps) ==
    IF deps = <<>> THEN m
    ELSE declare_all(IF m[Head(deps)].declared THEN m
                     ELSE [m EXCEPT ![Head(deps)] =
                              [EmptyManager EXCEPT !.implicit = TRUE]],
                     Tail(deps))

\* callbacks registered so far
NumCallbacks ==
    LET N(r) == (IF rms[r].provSet THEN 1 ELSE 0) + Len(rms[r].injectors)
                + (IF rms[r].initSet THEN 1 ELSE 0)
                + (IF rms[r].dispSet THEN 1 ELSE 0)
    IN N("A") + N("B")

Idle == stack = <<>>

\* the client configures the container before it requests instances
Configuring == Idle /\ ~started /\ NumCallbacks < MaxRegs

KeepEngine ==
    UNCHANGED << scopeOf, assets, deferred_injection, deferred_creation, stack,
                 result, other, log, returned, faults, started, clear_marks,
                 guard_n, guard_objs, current_ctx, qsets, answer >>

\* declare(r)
Declare(r) ==
    /\ Configuring
    /\ rms' = declare(rms, r)
    /\ KeepEngine

\* a provider that does not clear prov.injected
provider_NoClear(m, r, deps) ==
    LET m1 == declare(m, r)
        m2 == declare_all(m1, deps)
    IN [m2 EXCEPT ![r].provSet = TRUE, ![r].provDeps = deps,
                  ![r].provInjected = @ \o deps]

\* contextual::provider : prov.injected.clear(), then unwrap_inject pushes
\* the manager of every resource argument
provider(m, r, deps) ==
    LET m1 == declare(m, r)
        m2 == declare_all(m1, deps)
    IN [m2 EXCEPT ![r].provSet = TRUE, ![r].provDeps = deps,
                  ![r].provInjected = <<>> \o deps]

\* provide(r, func, deps...)
SetProvider(r, deps) ==
    /\ Configuring
    /\ rms' = provider(rms, r, deps)
    /\ KeepEngine

\* contextual::injector
injector(m, r, deps) ==
    LET m1 == declare(m, r)
        m2 == declare_all(m1, deps)
    IN [m2 EXCEPT ![r].injectors = Append(@, deps)]

\* inject(r, func, deps...) ; the fluent style of the API: after provide()
AddInjector(r, deps) ==
    /\ Configuring
    /\ rms[r].provSet
    /\ ~rms[r].initSet
    /\ rms' = injector(rms, r, deps)
    /\ KeepEngine

\* contextual::initializer : the callable is bound to deps, but unwrap_inject
\* is called on disp, so the resources are recorded in disp.injected
initializer(m, r, deps) ==
    LET m1 == declare(m, r)
        m2 == declare_all(m1, deps)
    IN [m2 EXCEPT ![r].initSet = TRUE, ![r].initDeps = deps,
                  ![r].initInjected = <<>>,
                  ![r].dispInjected = @ \o deps]

\* initialize(r, func, deps...) ; the fluent style of the API: after provide()
SetInitializer(r, deps) ==
    /\ Configuring
    /\ rms[r].provSet
    /\ ~rms[r].initSet
    /\ rms' = initializer(rms, r, deps)
    /\ KeepEngine

\* contextual::disposer : disp.injected is cleared, then filled with deps
disposer(m, r, deps) ==
    LET m1 == declare(m, r)
        m2 == declare_all(m1, deps)
    IN [m2 EXCEPT ![r].dispSet = TRUE, ![r].dispDeps = deps,
                  ![r].dispInjected = deps]

\* dispose(r, func, deps...)
SetDisposer(r, deps) ==
    /\ Configuring
    /\ ~rms[r].dispSet
    /\ rms' = disposer(rms, r, deps)
    /\ KeepEngine

\* the outcome of a client call get(r): st is none (no call yet, or running),
\* ok or error; val the value returned and ph the phase of the asset it was
\* read from; exc the chain of nested exceptions, outermost first; what/at
\* the callback that raised; prov: the client's own get was inside
\* rm->provide when the exception passed; rep: an earlier get(r) had
\* succeeded; base: the instances that existed when the call started.
\* n and cur: the turnstile count and the current local context when the call
\* started.
\* For a clear (op is clear, not get): ctx is the context, by the caller
\* (scope, container or dtor), had the instances
\* it held when the clear started, due the instances of all contexts that
\* had a disposer registered then; st is swallowed when a destructor caught
\* the exception.
NoResult ==
    [st |-> "none", r |-> "A", val |-> NoInst, ph |-> -1, exc |-> <<>>,
     what |-> "none", at |-> "A", prov |-> FALSE, rep |-> FALSE, base |-> 0,
     op |-> "get", ctx |-> <<"global">>, had |-> {}, n |-> 0, cur |-> 0,
     by |-> "none", due |-> {}]

(* ------------------------------------------------------------------ *)
(* The call stack                                                       *)
(* ------------------------------------------------------------------ *)
\* a call of container::get(r, p); pc: enter, provide (inside the try
\* block around rm->provide), defer, drain (the while loop)
GetFrame(r, p) ==
    [k |-> "get", r |-> r, p |-> p, ptr |-> StaticPtr, pc |-> "enter",
     idx |-> 0, args |-> <<>>, n |-> 0, self |-> NoInst]

\* a call of a typed_call's func (a std::bind object) of manager r: what is
\* prov, inj or init; args are the values of the bound resources evaluated so
\* far; self is the instance the reference `obj` denoted when it was taken
CallFrame(what, r, idx, ptr, self) ==
    [k |-> "call", r |-> r, p |-> 0, ptr |-> ptr, pc |-> what,
     idx |-> idx, args |-> <<>>, n |-> 0, self |-> self]

\* a call of container::do_deferred; n is `count`; pc: loop, inject,
\* postinject, create; r and ptr are the deferred_work being executed
DDFrame ==
    [k |-> "dd", r |-> "A", p |-> 0, ptr |-> StaticPtr, pc |-> "loop",
     idx |-> 0, args |-> <<>>, n |-> 0, self |-> NoInst]

\* a call of context::clear on context c; seen are the entries the loop has
\* visited, orig the entries the map held when the loop started; origin is
\* the caller: scope (GlobalScope::clear), container (container::clear) or
\* dtor (~GuardedScope, ~context of a LocalScope)
ClearFrame(c, origin) ==
    [k |-> "clear", r |-> "A", p |-> 0, ptr |-> StaticPtr, pc |-> "loop",
     idx |-> 0, args |-> <<>>, n |-> 0, self |-> NoInst,
     ctx |-> c, seen |-> {}, orig |-> { r \in Res : assets[SlotOf(c, r)] # Absent },
     origin |-> origin]

Top == stack[Len(stack)]
Pop(stk) == SubSeq(stk, 1, Len(stk) - 1)
SetTop(stk, f) == [stk EXCEPT ![Len(stk)] = f]

\* the resources a call is bound to (the nested std::bind(inject_partial, ..))
CallDeps(f) ==
    CASE f.pc = "prov" -> rms[f.r].provDeps
      [] f.pc = "inj" -> rms[f.r].injectors[f.idx]
      [] f.pc = "init" -> rms[f.r].initDeps
      [] f.pc = "disp" -> rms[f.r].dispDeps

\* every dependency requested fully created
CallPhase_Created(what) == created

\* the phase unwrap_inject binds inject_partial to
CallPhase(what) ==
    CASE what = "init" -> injected
      [] what = "disp" -> created
      [] OTHER -> provided

(* ------------------------------------------------------------------ *)
(* Exceptions                                                           *)
(* ------------------------------------------------------------------ *)
\* Every catch block of the engine rethrows, so an exception unwinds the
\* whole stack.  The only handler is the catch(...) of container::get around
\* rm->provide: it drops the asset and nests the exception in
\* instantiation_error("Error while instantiating").  Below the engine,
\* ~GuardedScope and ~context catch and swallow what context::clear throws.
Handlers(stk) == { i \in 1..Len(stk) : stk[i].k = "get" /\ stk[i].pc = "provide" }

RECURSIVE DropFailed(_, _, _)
DropFailed(stk, as, i) ==
    IF i = 0 THEN as
    ELSE DropFailed(stk,
                    IF i \in Handlers(stk)
                    THEN drop_asset(scopeOf[stk[i].r], as, stk[i].r)
                    ELSE as,
                    i - 1)

\* the chain of nested exceptions that reaches the client, outermost first
Wrap(stk, cause) ==
    [i \in 1..Cardinality(Handlers(stk)) |-> "Instantiation:Error"] \o <<cause>>

\* the exception reaches a destructor, whose catch(...) block is empty
Swallowed(stk) == stk[1].k = "clear" /\ stk[1].origin = "dtor"

\* asset_map.clear(), and the destruction of the map
erase_all(as, c) ==
    [p \in Ptrs |-> IF \E r \in Res : p = SlotOf(c, r) THEN Absent ELSE as[p]]

\* ~context of a LocalScope object: after clear() threw, the asset map is
\* destroyed with the entries it still holds, their disposers not run
DestroyMap(stk, as) ==
    IF stk[1].k = "clear" /\ stk[1].ctx[1] = "local"
    THEN erase_all(as, stk[1].ctx) ELSE as

\* throw `cause` with call stack stk and assets as; what/at name the callback
\* (or the engine) that raised
Raise(stk, as, cause, what, at) ==
    /\ stack' = <<>>
    /\ assets' = DestroyMap(stk, DropFailed(stk, as, Len(stk)))
    /\ result' = [result EXCEPT !.st = IF Swallowed(stk) THEN "swallowed" ELSE "error",
                                 !.exc = Wrap(stk, cause),
                                 !.what = what, !.at = at,
                                 !.prov = (stk[1].pc = "provide")]

(* ------------------------------------------------------------------ *)
(* The instantiation engine                                             *)
(* ------------------------------------------------------------------ *)
set_phase(as, ptr, ph) == [as EXCEPT ![ptr].ph = ph]

\* a defer_creation that pushes no record and leaves the phase alone
defer_creation_NoRecord(as, inj, cre, ptr, r) ==
    [as |-> as, inj |-> inj, cre |-> cre]

\* container::defer_creation : [as, inj, cre]
defer_creation(as, inj, cre, ptr, r) ==
    LET w == [ass |-> ptr, rm |-> r, stale |-> FALSE]
        toInj == as[ptr].ph = provided /\ Len(rms[r].injectors) > 0
        as1 == IF as[ptr].ph = provided /\ ~toInj
               THEN set_phase(as, ptr, injected) ELSE as
        toCre == ~toInj /\ as1[ptr].ph = injected /\ rms[r].initSet
        as2 == IF ~toInj /\ as1[ptr].ph = injected /\ ~toCre
               THEN set_phase(as1, ptr, created) ELSE as1
    IN [as |-> as2,
        inj |-> IF toInj THEN Append(inj, w) ELSE inj,
        cre |-> IF toCre THEN Append(cre, w) ELSE cre]

\* the engine creates and destroys no scope object
KeepScopes ==
    UNCHANGED << guard_n, guard_objs, current_ctx, clear_marks, qsets, answer >>

\* resource::get() : the client requests an instance of r
TopGet(r) ==
    /\ KeepScopes
    /\ Idle
    /\ started' = TRUE
    /\ stack' = << GetFrame(r, created) >>
    /\ result' = [NoResult EXCEPT !.r = r, !.rep = (returned[r] # {}),
                                   !.base = Len(other),
                                   !.n = guard_n, !.cur = current_ctx]
    /\ UNCHANGED << scopeOf, rms, assets, deferred_injection, deferred_creation,
                    other, log, returned, faults >>

\* container::get(r, p) up to the call of the provider
GetEnter ==
    /\ KeepScopes
    /\ stack # <<>>
    /\ Top.k = "get" /\ Top.pc = "enter"
    /\ LET f == Top
           sc == scopeOf[f.r]
           ga == get_asset(sc, assets, f.r)
       IN
       IF ~is_active(sc)
       THEN Raise(stack, assets, "InactiveScope", "engine", f.r)
       ELSE
       IF ga.isnew
       THEN IF ~get_declared(rms, f.r)
            THEN Raise(stack, drop_asset(sc, ga.as, f.r),
                       "Instantiation:Undeclared", "engine", f.r)
            ELSE IF ~rms[f.r].provSet
            THEN Raise(SetTop(stack, [f EXCEPT !.pc = "provide", !.ptr = ga.ptr]),
                       ga.as, "Instantiation:NoProvider", "engine", f.r)
            ELSE /\ assets' = ga.as
                 /\ stack' = Append(SetTop(stack, [f EXCEPT !.pc = "provide",
                                                            !.ptr = ga.ptr]),
                                    CallFrame("prov", f.r, 0, ga.ptr, NoInst))
                 /\ UNCHANGED result
       ELSE IF ga.as[ga.ptr].ph = allocated
            THEN Raise(stack, ga.as, "Instantiation:Cyclical", "engine", f.r)
            ELSE /\ assets' = ga.as
                 /\ stack' = SetTop(stack, [f EXCEPT !.pc = "drain", !.ptr = ga.ptr])
                 /\ UNCHANGED result
    /\ UNCHANGED << scopeOf, rms, deferred_injection, deferred_creation,
                    other, log, returned, faults, started >>

\* the std::bind object evaluates the next bound inject_partial(res, ph)
CallArg ==
    /\ KeepScopes
    /\ stack # <<>>
    /\ Top.k = "call"
    /\ Len(Top.args) < Len(CallDeps(Top))
    /\ Len(stack) < MaxDepth
    /\ stack' = Append(stack, GetFrame(CallDeps(Top)[Len(Top.args) + 1],
                                       CallPhase(Top.pc)))
    /\ UNCHANGED << scopeOf, rms, assets, deferred_injection, deferred_creation,
                    result, other, log, returned, faults, started >>

\* the instance a user callable receives through the reference `obj`: the
\* reference was taken before the bound arguments were evaluated; if the
\* asset was reassigned meanwhile (NewScope's static asset) the reference
\* dangles and either instance may be read
SelfChoices(f) == { f.self, assets[f.ptr].obj }

AddLog(lg, i, e) == [lg EXCEPT ![i] = Append(@, e)]

\* the user callable raises
CallRaise ==
    /\ KeepScopes
    /\ stack # <<>>
    /\ Top.k = "call"
    /\ Len(Top.args) = Len(CallDeps(Top))
    /\ faults < MaxFaults
    /\ faults' = faults + 1
    /\ Raise(stack, assets, "User", Top.pc, Top.r)
    /\ log' = IF Top.pc = "disp" THEN AddLog(log, Top.self, <<"disp_raise", Top.r, 0>>)
              ELSE log
    /\ UNCHANGED << scopeOf, rms, deferred_injection, deferred_creation,
                    other, returned, started >>

\* the provider returns: rm->provide(ass->object()); ass->set_phase(provided)
ProviderReturn ==
    /\ KeepScopes
    /\ stack # <<>>
    /\ Top.k = "call" /\ Top.pc = "prov"
    /\ Len(Top.args) = Len(CallDeps(Top))
    /\ Len(other) < MaxInst
    /\ LET f == Top
           i == Len(other) + 1
           g == stack[Len(stack) - 1]
       IN /\ other' = Append(other, IF f.args = <<>> THEN NoInst ELSE f.args[1])
          /\ log' = Append(log, << <<"prov", f.r, 0>> >>)
          /\ assets' = [assets EXCEPT ![g.ptr] = [obj |-> i, ph |-> provided]]
          /\ stack' = SetTop(Pop(stack), [g EXCEPT !.pc = "defer"])
    /\ UNCHANGED << scopeOf, rms, deferred_injection, deferred_creation,
                    result, returned, faults, started >>

\* defer_creation(ass, rm) of container::get
GetDefer ==
    /\ KeepScopes
    /\ stack # <<>>
    /\ Top.k = "get" /\ Top.pc = "defer"
    /\ LET dc == defer_creation(assets, deferred_injection, deferred_creation,
                                Top.ptr, Top.r)
       IN /\ assets' = dc.as
          /\ deferred_injection' = dc.inj
          /\ deferred_creation' = dc.cre
    /\ stack' = SetTop(stack, [Top EXCEPT !.pc = "drain"])
    /\ UNCHANGED << scopeOf, rms, result, other, log, returned, faults, started >>

\* a loop condition that only waits for the provided value
MustDrain_ProvidedOnly(f) == assets[f.ptr].ph < provided

\* the loop condition of container::get : ass->phase() < p
MustDrain(f) == assets[f.ptr].ph < f.p

\* the while loop of container::get and its return
GetDrain ==
    /\ KeepScopes
    /\ stack # <<>>
    /\ Top.k = "get" /\ Top.pc = "drain"
    /\ LET f == Top
           v == assets[f.ptr].obj
       IN
       IF MustDrain(f)
       THEN /\ stack' = Append(stack, DDFrame)
            /\ UNCHANGED << result, returned >>
       ELSE IF Len(stack) = 1
            THEN /\ stack' = <<>>
                 /\ result' = [result EXCEPT !.st = "ok", !.val = v,
                                            !.ph = assets[f.ptr].ph]
                 /\ returned' = [returned EXCEPT ![f.r] = @ \cup {v}]
            ELSE /\ stack' = SetTop(Pop(stack),
                                    [stack[Len(stack) - 1] EXCEPT
                                        !.args = Append(@, v)])
                 /\ UNCHANGED << result, returned >>
    /\ UNCHANGED << scopeOf, rms, assets, deferred_injection, deferred_creation,
                    other, log, faults, started >>

\* a do_deferred that serves the creation stack whenever it has a record
InjectionFirst_CreationPreferred == deferred_creation = <<>>

\* which stack do_deferred serves first
InjectionFirst == deferred_injection # <<>>

\* one iteration of the loop of container::do_deferred, up to the first user
\* callable, or its return
\* The asserts of deferred_work::inject / create and of defer_creation are
\* compiled out with NDEBUG; a build that keeps them aborts where this action
\* skips a record whose asset is outside the asserted phases, so its
\* reachable states are a subset of the ones explored here.
DDLoop ==
    /\ KeepScopes
    /\ stack # <<>>
    /\ Top.k = "dd" /\ Top.pc = "loop"
    /\ LET d == Top IN
       IF InjectionFirst /\ deferred_injection # <<>>
       THEN LET w == deferred_injection[Len(deferred_injection)]
                d1 == [d EXCEPT !.r = w.rm, !.ptr = w.ass]
            IN /\ deferred_injection' = Pop(deferred_injection)
               /\ UNCHANGED << deferred_creation, result >>
               /\ IF assets[w.ass].ph = provided
                  THEN IF Len(rms[w.rm].injectors) > 0
                       THEN /\ stack' = Append(
                                   SetTop(stack, [d1 EXCEPT !.pc = "inject", !.idx = 1]),
                                   CallFrame("inj", w.rm, 1, w.ass, assets[w.ass].obj))
                            /\ log' = AddLog(log, assets[w.ass].obj, <<"inj_begin", w.rm, 1>>)
                            /\ UNCHANGED assets
                       ELSE /\ assets' = set_phase(assets, w.ass, injected)
                            /\ stack' = SetTop(stack, [d1 EXCEPT !.pc = "postinject"])
                            /\ UNCHANGED log
                  ELSE /\ stack' = SetTop(stack, [d1 EXCEPT !.pc = "postinject"])
                       /\ UNCHANGED << assets, log >>
       ELSE IF deferred_creation # <<>>
       THEN LET w == deferred_creation[Len(deferred_creation)]
                d1 == [d EXCEPT !.r = w.rm, !.ptr = w.ass]
            IN /\ deferred_creation' = Pop(deferred_creation)
               /\ UNCHANGED << deferred_injection, result >>
               /\ IF assets[w.ass].ph = injected
                  THEN IF rms[w.rm].initSet
                       THEN /\ stack' = Append(
                                   SetTop(stack, [d1 EXCEPT !.pc = "create"]),
                                   CallFrame("init", w.rm, 0, w.ass, assets[w.ass].obj))
                            /\ log' = AddLog(log, assets[w.ass].obj, <<"init_begin", w.rm, 0>>)
                            /\ UNCHANGED assets
                       ELSE /\ assets' = set_phase(assets, w.ass, created)
                            /\ stack' = SetTop(stack, [d1 EXCEPT !.n = @ + 1])
                            /\ UNCHANGED log
                  ELSE /\ stack' = SetTop(stack, [d1 EXCEPT !.n = @ + 1])
                       /\ UNCHANGED << assets, log >>
       ELSE /\ UNCHANGED << deferred_injection, deferred_creation, log >>
            /\ IF d.n = 0
               THEN Raise(Pop(stack), assets, "Instantiation:Cyclical", "engine",
                          stack[Len(stack) - 1].r)
               ELSE /\ stack' = Pop(stack)
                    /\ UNCHANGED << assets, result >>
    /\ UNCHANGED << scopeOf, rms, other, returned, faults, started >>

\* an injector returns: the next injector of contextual::inject_instance, or
\* ass->set_phase(injected) of deferred_work::inject
InjectorReturn ==
    /\ KeepScopes
    /\ stack # <<>>
    /\ Top.k = "call" /\ Top.pc = "inj"
    /\ Len(Top.args) = Len(CallDeps(Top))
    /\ LET f == Top
           d == stack[Len(stack) - 1]
       IN \E self \in SelfChoices(f) :
          /\ other' = IF f.args = <<>> THEN other
                      ELSE [other EXCEPT ![self] = f.args[1]]
          /\ IF f.idx < Len(rms[f.r].injectors)
             THEN /\ log' = AddLog(AddLog(log, self, <<"inj", f.r, f.idx>>),
                                   self, <<"inj_begin", f.r, f.idx + 1>>)
                  /\ stack' = Append(SetTop(Pop(stack), [d EXCEPT !.idx = f.idx + 1]),
                                     CallFrame("inj", f.r, f.idx + 1, f.ptr, self))
                  /\ UNCHANGED assets
             ELSE /\ log' = AddLog(log, self, <<"inj", f.r, f.idx>>)
                  /\ assets' = set_phase(assets, f.ptr, injected)
                  /\ stack' = SetTop(Pop(stack), [d EXCEPT !.pc = "postinject"])
    /\ UNCHANGED << scopeOf, rms, deferred_injection, deferred_creation,
                    result, returned, faults, started >>

\* count++; defer_creation(work) of do_deferred
DDPostInject ==
    /\ KeepScopes
    /\ stack # <<>>
    /\ Top.k = "dd" /\ Top.pc = "postinject"
    /\ LET dc == defer_creation(assets, deferred_injection, deferred_creation,
                                Top.ptr, Top.r)
       IN /\ assets' = dc.as
          /\ deferred_injection' = dc.inj
          /\ deferred_creation' = dc.cre
    /\ stack' = SetTop(stack, [Top EXCEPT !.pc = "loop", !.n = @ + 1])
    /\ UNCHANGED << scopeOf, rms, result, other, log, returned, faults, started >>

\* the initializer returns: ass->set_phase(created) of deferred_work::create
InitializerReturn ==
    /\ KeepScopes
    /\ stack # <<>>
    /\ Top.k = "call" /\ Top.pc = "init"
    /\ Len(Top.args) = Len(CallDeps(Top))
    /\ LET f == Top
           d == stack[Len(stack) - 1]
       IN \E self \in SelfChoices(f) :
          /\ log' = AddLog(log, self, <<"init", f.r, 0>>)
          /\ assets' = set_phase(assets, f.ptr, created)
          /\ stack' = SetTop(Pop(stack), [d EXCEPT !.pc = "loop", !.n = @ + 1])
    /\ UNCHANGED << scopeOf, rms, deferred_injection, deferred_creation,
                    result, other, returned, faults, started >>

(* ------------------------------------------------------------------ *)
(* The consistency check                                                *)
(* ------------------------------------------------------------------ *)
\* container::rsevent : the event "resource r reaches phase ph"
rsevent(ph, r) == <<ph, r>>
Events == (allocated..disposed) \X Res

SeqToSet(q) == { q[i] : i \in 1..Len(q) }

RECURSIVE Flatten(_)
Flatten(qs) == IF qs = <<>> THEN <<>> ELSE Head(qs) \o Flatten(Tail(qs))

\* the requires calls construct_graph makes for the manager of r, in order,
\* as pairs <<node, required node>>
EventEdges(m, r) ==
    LET M == rsevent(allocated, r)
        P == rsevent(provided, r)
        I == rsevent(injected, r)
        C == rsevent(created, r)
        D == rsevent(disposed, r)
        inj == Flatten(m[r].injectors)
    IN << <<D, C>>, <<C, I>>, <<I, P>>, <<P, M>> >>
       \o [i \in 1..Len(m[r].provInjected) |->
              <<P, rsevent(provided, m[r].provInjected[i])>>]
       \o [i \in 1..Len(inj) |-> <<I, rsevent(provided, inj[i])>>]
       \o [i \in 1..Len(m[r].initInjected) |->
              <<C, rsevent(injected, m[r].initInjected[i])>>]
       \o Flatten([i \in 1..Len(m[r].dispInjected) |->
              << <<D, rsevent(created, m[r].dispInjected[i])>>,
                 <<rsevent(disposed, m[r].dispInjected[i]), D>> >>])

\* the nodes construct_graph asks DepGraph::get for while it handles the
\* manager of r, in order: M, P, I, C, D, then per requires call the node
\* of the other resource
EventGets(m, r) ==
    [ph \in 1..5 |-> rsevent(ph - 1, r)]
    \o [i \in 1..Len(EventEdges(m, r)) |->
           IF EventEdges(m, r)[i][1][2] = r THEN EventEdges(m, r)[i][2]
           ELSE EventEdges(m, r)[i][1]]

\* DepGraph::get appends a node to `nodes` the first time it is asked for
FirstOccurrences(q) ==
    LET keep == { i \in 1..Len(q) : \A j \in 1..(i - 1) : q[j] # q[i] }
    IN [k \in 1..Cardinality(keep) |->
           q[CHOOSE i \in keep : Cardinality({ j \in keep : j < i }) = k - 1]]

\* container::construct_graph : the DepGraph, i.e. the node vector and, per
\* node, its req vector; order is the iteration order of the unordered_map
\* rms
construct_graph(m, order) ==
    LET calls == Flatten([i \in 1..Len(order) |-> EventEdges(m, order[i])])
    IN [nodes |-> FirstOccurrences(
                      Flatten([i \in 1..Len(order) |-> EventGets(m, order[i])])),
        req |-> [n \in Events |->
                    LET mine == SelectSeq(calls, LAMBDA e : e[1] = n)
                    IN [i \in 1..Len(mine) |-> mine[i][2]]]]

RECURSIVE topo_sort_visit(_, _, _)
RECURSIVE topo_sort_visit_all(_, _, _)
\* container::topo_sort_visit ; st = [mark, sorted]
topo_sort_visit(G, node, st) ==
    IF node \in st.mark THEN st
    ELSE LET st1 == topo_sort_visit_all(G, G.req[node],
                                        [st EXCEPT !.mark = @ \cup {node}])
         IN [st1 EXCEPT !.sorted = Append(@, node)]
\* the for loops over node->req and over G.nodes (once every event is
\* marked the remaining calls return at once)
topo_sort_visit_all(G, ns, st) ==
    IF ns = <<>> \/ st.mark = Events THEN st
    ELSE LET st1 == topo_sort_visit(G, Head(ns), st)
         IN IF st1.mark = Events THEN st1
            ELSE topo_sort_visit_all(G, Tail(ns), st1)

\* container::topo_sort_graph : the nodes in depth-first post-order
topo_sort_graph(G) ==
    [G EXCEPT !.nodes = topo_sort_visit_all(G, G.nodes,
                                            [mark |-> {}, sorted |-> <<>>]).sorted]

\* DepGraph::enumerate_nodes : the position of a node in the node vector
ord(G, n) == CHOOSE i \in 1..Len(G.nodes) : G.nodes[i] = n

\* the orders in which the unordered_map rms may be iterated
RmsOrders(m) ==
    LET D == { r \in Res : m[r].declared }
    IN { q \in UNION { [1..k -> D] : k \in 0..Cardinality(Res) } :
            /\ Len(q) = Cardinality(D)
            /\ \A i, j \in 1..Len(q) : i # j => q[i] # q[j] }

\* an order-reversing test that accepts self-loops
IsBackEdge_Strict(G, a, b) == ord(G, a) < ord(G, b)

\* the test of check_consistency : node->ord <= r->ord
IsBackEdge(G, a, b) == ord(G, a) <= ord(G, b)

\* container::check_consistency : [ok, report], the report being the
\* lines "Cyclical dependency: <node> precedes <r>"
check_consistency(m, order) ==
    LET G == topo_sort_graph(construct_graph(m, order))
        lines == Flatten([i \in 1..Len(G.nodes) |->
                    SelectSeq(
                        [j \in 1..Len(G.req[G.nodes[i]]) |->
                            [text |-> "Cyclical dependency", node |-> G.nodes[i],
                             r |-> G.req[G.nodes[i]][j]]],
                        LAMBDA e : IsBackEdge(G, e.node, e.r))])
    IN [ok |-> lines = <<>>, report |-> lines]

(* ------------------------------------------------------------------ *)
(* Qualifiers and sets of qualifiers                                     *)
(* ------------------------------------------------------------------ *)
\* a qualifier: the type of its implementation class and its value ("" for
\* a void qualifier)
Qual(t, v) == [tag |-> t, val |-> v]
\* the standard qualifiers
Default == Qual("Default", "")
All == Qual("All", "")
Null == Qual("Null", "")
\* DEFINE_QUALIFIER(Name, std::string, const std::string&)
Name(v) == Qual("Name", v)
\* the qualifiers the client uses
Quals == { Default, All, Null, Name("foo"), Name("bar") }

\* bitwise exclusive or of two size_t values
xor(a, b) ==
    LET RECURSIVE X(_, _, _)
        X(x, y, k) == IF k = 0 THEN 0
                      ELSE ((x + y) % 2) + 2 * X(x \div 2, y \div 2, k - 1)
    IN X(a, b, HashWidth)

\* std::type_index::hash_code of the implementation class
type_hash(t) ==
    CASE t = "Default" -> 17 [] t = "All" -> 34 [] t = "Null" -> 51
      [] t = "Name" -> 68
\* std::hash of the value; a void qualifier passes (size_t)0
value_hash(v) == CASE v = "" -> 0 [] v = "foo" -> 5 [] v = "bar" -> 9

\* boost::hash_combine : seed ^= h + 0x9e3779b9 + (seed << 6) + (seed >> 2)
hash_combine(seed, h) ==
    xor(seed, (h + GoldenLow + seed * 64 + (seed \div 4)) % (2 ^ HashWidth))

\* qual_base::compute_hash
compute_hash(ti, vhash) == hash_combine(hash_combine(0, ti), vhash)

\* qualifier::hash_code (cached by the constructor of qual_base)
hash_code(q) == compute_hash(type_hash(q.tag), value_hash(q.val))

\* qual_base::equals, with the override of qual_state for a qualifier that
\* has a value
equals(a, b) ==
    /\ hash_code(a) = hash_code(b)
    /\ a.tag = b.tag
    /\ (a.val # "" \/ b.val # "") => a.val = b.val

\* qualifier::matches : qual_base::matches is equals, All overrides it
qual_matches(a, b) == IF a.tag = "All" THEN TRUE ELSE equals(a, b)

\* a set of qualifiers: the unordered_set qset, keyed by type, and hcode
EmptyQualifiers == [qset |-> {}, hcode |-> 0]

\* unordered_set::find with equal_types : the elements of the type of q
find(S, q) == { x \in S.qset : x.tag = q.tag }

\* an insert that adds the element also when one of its type is there
insert_Multi(qset, q) == qset \cup {q}

\* unordered_set::insert : no effect when an element of that type is there
insert(qset, q) ==
    IF \E x \in qset : x.tag = q.tag THEN qset ELSE qset \cup {q}

RECURSIVE insert_range(_, _)
\* the constructor of unordered_set from an initializer list
insert_range(qset, init) ==
    IF init = <<>> THEN qset
    ELSE insert_range(insert(qset, Head(init)), Tail(init))

RECURSIVE xor_all(_)
\* qualifiers::compute_hash : the xor of the hash codes of the members
xor_all(qset) ==
    IF qset = {} THEN 0
    ELSE LET q == CHOOSE x \in qset : TRUE
         IN xor(hash_code(q), xor_all(qset \ {q}))

\* qualifiers::qualifiers(const std::initializer_list<qualifier>&)
qualifiers(init) ==
    LET s == insert_range({}, init) IN [qset |-> s, hcode |-> xor_all(s)]

\* qualifiers::contains_similar
contains_similar(S, q) == find(S, q) # {}
\* qualifiers::contains
contains(S, q) == \E x \in find(S, q) : equals(x, q)
\* qualifiers::size
size(S) == Cardinality(S.qset)

\* a matches in which a set that holds All alone matches every set
matches_AllAlone(A, B) ==
    \/ A.qset = { All }
    \/ /\ \A a \in A.qset : \E b \in B.qset : qual_matches(a, b)
       /\ \A b \in B.qset : \E a \in A.qset : qual_matches(a, b)

\* a matches that tests the first direction only
matches_OneWay(A, B) ==
    \A a \in A.qset : \E b \in B.qset : qual_matches(a, b)

\* qualifiers::matches
matches(A, B) ==
    /\ \A a \in A.qset : \E b \in B.qset : qual_matches(a, b)
    /\ \A b \in B.qset : \E a \in A.qset : qual_matches(a, b)

\* qualifiers::operator==
set_equals(A, B) ==
    /\ size(A) = size(B)
    /\ \A q \in A.qset : contains(B, q)

\* qualifiers::delete_similar : [set, ret]
delete_similar(S, q) ==
    IF find(S, q) # {}
    THEN LET it == CHOOSE x \in find(S, q) : TRUE
         IN [set |-> [qset |-> S.qset \ {it}, hcode |-> xor(S.hcode, hash_code(it))],
             ret |-> TRUE]
    ELSE [set |-> S, ret |-> FALSE]

\* qualifiers::delete_equal : [set, ret]
delete_equal(S, q) ==
    IF \E x \in find(S, q) : equals(x, q)
    THEN LET it == CHOOSE x \in find(S, q) : equals(x, q)
         IN [set |-> [qset |-> S.qset \ {it}, hcode |-> xor(S.hcode, hash_code(it))],
             ret |-> TRUE]
    ELSE [set |-> S, ret |-> FALSE]

\* an update that leaves the cached hash code as it was
update_KeepHash(S, q) ==
    LET D == delete_similar(S, q).set
    IN [qset |-> insert(D.qset, q), hcode |-> S.hcode]

\* qualifiers::update(const qualifier&)
update(S, q) ==
    LET D == delete_similar(S, q).set
    IN [qset |-> insert(D.qset, q), hcode |-> xor(D.hcode, hash_code(q))]

\* qualifiers::clear
clear(S) == [qset |-> {}, hcode |-> 0]

\* the initializer lists the client writes
InitLists ==
    UNION { [1..n -> Quals] : n \in 0..MaxList }

\* the two sets the client works with
SetIds == {1, 2}

\* the last call on a set: op, the set i it was called on, its argument q (or
\* the other set j), the value `before` of the set and what the call returned
NoAnswer ==
    [op |-> "none", i |-> 1, j |-> 1, q |-> Null, before |-> EmptyQualifiers,
     ret |-> FALSE]

\* qualifiers S = init; the object that was there is destroyed
QConstruct(i, init) ==
    /\ qsets' = [qsets EXCEPT ![i] = qualifiers(init)]
    /\ answer' = [NoAnswer EXCEPT !.op = "construct", !.i = i]
    /\ UNCHANGED cvars

\* S.update(q)
QUpdate(i, q) ==
    /\ qsets' = [qsets EXCEPT ![i] = update(@, q)]
    /\ answer' = [NoAnswer EXCEPT !.op = "update", !.i = i, !.q = q,
                                   !.before = qsets[i]]
    /\ UNCHANGED cvars

\* S.delete_similar(q)
QDeleteSimilar(i, q) ==
    /\ qsets' = [qsets EXCEPT ![i] = delete_similar(@, q).set]
    /\ answer' = [NoAnswer EXCEPT !.op = "delete_similar", !.i = i, !.q = q,
                                   !.before = qsets[i],
                                   !.ret = delete_similar(qsets[i], q).ret]
    /\ UNCHANGED cvars

\* S.delete_equal(q)
QDeleteEqual(i, q) ==
    /\ qsets' = [qsets EXCEPT ![i] = delete_equal(@, q).set]
    /\ answer' = [NoAnswer EXCEPT !.op = "delete_equal", !.i = i, !.q = q,
                                   !.before = qsets[i],
                                   !.ret = delete_equal(qsets[i], q).ret]
    /\ UNCHANGED cvars

\* S.clear()
QClear(i) ==
    /\ qsets' = [qsets EXCEPT ![i] = clear(@)]
    /\ answer' = [NoAnswer EXCEPT !.op = "clear", !.i = i, !.before = qsets[i]]
    /\ UNCHANGED cvars

\* S.matches(T)
QMatches(i, j) ==
    /\ answer' = [NoAnswer EXCEPT !.op = "matches", !.i = i, !.j = j,
                                   !.before = qsets[i],
                                   !.ret = matches(qsets[i], qsets[j])]
    /\ UNCHANGED << qsets, cvars >>

\* S.contains(q)
QContains(i, q) ==
    /\ answer' = [NoAnswer EXCEPT !.op = "contains", !.i = i, !.q = q,
                                   !.before = qsets[i],
                                   !.ret = contains(qsets[i], q)]
    /\ UNCHANGED << qsets, cvars >>

(* ------------------------------------------------------------------ *)
(* Initial state                                                        *)
(* ------------------------------------------------------------------ *)
Init ==
    /\ scopeOf \in ScopeConfigs
    /\ rms = [r \in Res |-> NoManager]
    /\ assets = [p \in Ptrs |-> IF p = StaticPtr THEN NewAsset ELSE Absent]
    /\ deferred_injection = <<>>
    /\ deferred_creation = <<>>
    /\ stack = <<>>
    /\ result = NoResult
    /\ other = <<>>
    /\ log = <<>>
    /\ returned = [r \in Res |-> {}]
    /\ faults = 0
    /\ started = FALSE
    /\ clear_marks = <<>>
    /\ qsets = [i \in SetIds |-> EmptyQualifiers]
    /\ answer = NoAnswer
    /\ guard_n = 0
    /\ guard_objs = 0
    /\ current_ctx = 0

Next ==
    \/ \E r \in Res : Declare(r)
    \/ \E r \in Res, deps \in DepLists : SetProvider(r, deps)
    \/ \E r \in Res, deps \in DepLists : AddInjector(r, deps)
    \/ \E r \in Res, deps \in DepLists : SetInitializer(r, deps)
    \/ \E r \in Res : TopGet(r)
    \/ GetEnter
    \/ CallArg
    \/ CallRaise
    \/ ProviderReturn
    \/ GetDefer
    \/ GetDrain
    \/ DDLoop
    \/ InjectorReturn
    \/ DDPostInject
    \/ InitializerReturn

Spec == Init /\ [][Next]_vars

(* ------------------------------------------------------------------ *)
(* Scope objects and the disposal of contexts                           *)
(* ------------------------------------------------------------------ *)
\* the scope configurations explored with scope objects and clear()
LifeConfigs ==
    { [A |-> "Global", B |-> "Global"],
      [A |-> "Guarded", B |-> "Guarded"],
      [A |-> "Local", B |-> "Local"] }

\* the entries of the asset map of context c
Entries(c) == { r \in Res : assets[SlotOf(c, r)] # Absent }
\* the instances held in context c
Held(c) == { assets[SlotOf(c, r)].obj : r \in Entries(c) }

\* the instances held in any context for which a disposer is registered
Due ==
    UNION { { assets[SlotOf(c, r)].obj : r \in { x \in Entries(c) : rms[x].dispSet } }
            : c \in Contexts }

\* the client is done configuring and works with scopes and instances
Operating == Idle /\ (started \/ NumCallbacks > 0)

\* a client call that ends in context::clear on context c
StartClear(c, origin) ==
    /\ stack' = << ClearFrame(c, origin) >>
    /\ result' = [NoResult EXCEPT !.op = "clear", !.ctx = c, !.had = Held(c),
                                   !.by = origin, !.due = Due,
                                   !.base = Len(other)]
    /\ started' = TRUE
    /\ UNCHANGED << scopeOf, rms, assets, deferred_injection, deferred_creation,
                    other, log, returned, faults, clear_marks, qsets, answer >>

\* GlobalScope::clear()
GlobalScope_clear ==
    /\ Operating
    /\ \E r \in Res : scopeOf[r] = "Global"
    /\ StartClear(<<"global">>, "scope")
    /\ KeepScopes

\* container::clear() : GlobalScope::clear(), then the managers are deleted
container_clear ==
    /\ Operating
    /\ Len(clear_marks) < MaxClears
    /\ StartClear(<<"global">>, "container")
    /\ KeepScopes

\* GuardedScope<Tag>::GuardedScope() and the copy constructor : ++_n
GuardedScope_ctor ==
    /\ Operating
    /\ \E r \in Res : scopeOf[r] = "Guarded"
    /\ guard_n < MaxGuards /\ guard_objs < MaxGuards
    /\ guard_n' = guard_n + 1
    /\ guard_objs' = guard_objs + 1
    /\ started' = TRUE
    /\ UNCHANGED << scopeOf, rms, assets, deferred_injection, deferred_creation,
                    stack, result, other, log, returned, faults, current_ctx,
                    clear_marks, qsets, answer >>

\* a destructor that clears the context whatever the count
GuardedScope_dtor_AlwaysClears ==
    /\ Operating
    /\ guard_objs > 0
    /\ guard_n > -MaxGuards
    /\ guard_n' = guard_n - 1
    /\ guard_objs' = guard_objs - 1
    /\ UNCHANGED current_ctx
    /\ StartClear(<<"guarded">>, "dtor")

\* GuardedScope<Tag>::~GuardedScope() : --_n; if(_n==0) ctx.clear()
GuardedScope_dtor ==
    /\ Operating
    /\ guard_objs > 0
    /\ guard_n > -MaxGuards
    /\ guard_n' = guard_n - 1
    /\ guard_objs' = guard_objs - 1
    /\ UNCHANGED current_ctx
    /\ IF guard_n = 1
       THEN StartClear(<<"guarded">>, "dtor")
       ELSE UNCHANGED << scopeOf, rms, assets, deferred_injection,
                         deferred_creation, stack, result, other, log,
                         returned, faults, started, clear_marks, qsets,
                         answer >>

\* LocalScope<Tag>::LocalScope() : saved_ctx = current_ctx; current_ctx = &ctx
LocalScope_ctor ==
    /\ Operating
    /\ \E r \in Res : scopeOf[r] = "Local"
    /\ current_ctx < MaxNest
    /\ current_ctx' = current_ctx + 1
    /\ started' = TRUE
    /\ UNCHANGED << scopeOf, rms, assets, deferred_injection, deferred_creation,
                    stack, result, other, log, returned, faults, guard_n,
                    guard_objs, clear_marks, qsets, answer >>

\* LocalScope<Tag>::~LocalScope() : current_ctx = saved_ctx, then the member
\* ctx is destroyed (~context calls clear()); the objects are nested, so the
\* one destroyed is the innermost
LocalScope_dtor ==
    /\ Operating
    /\ current_ctx > 0
    /\ current_ctx' = current_ctx - 1
    /\ UNCHANGED << guard_n, guard_objs >>
    /\ StartClear(<<"local", current_ctx>>, "dtor")

\* how many times the disposer has been started on instance i
Started(i) ==
    Cardinality({ j \in 1..Len(log[i]) : log[i][j][1] = "disp_begin" })

\* how many times the user's disposer has been invoked on instance i (it
\* returned or it raised)
Invoked(i) ==
    Cardinality({ j \in 1..Len(log[i]) : log[i][j][1] \in {"disp", "disp_raise"} })

\* the deferred work records that point into freed storage: assets of the
\* erased context c, or (all = TRUE) managers that were deleted
MarkStale(q, c, all) ==
    [i \in 1..Len(q) |->
        IF all \/ \E r \in Res : q[i].ass = SlotOf(c, r)
        THEN [q[i] EXCEPT !.stale = TRUE] ELSE q[i]]

\* one iteration of the loop of context::clear up to the user's disposer, or
\* the end of the loop with asset_map.clear().  An entry that a disposer's
\* dependency inserted into the map during the loop may or may not be
\* visited.
ClearLoop ==
    /\ UNCHANGED << guard_n, guard_objs, current_ctx, qsets, answer >>
    /\ stack # <<>>
    /\ Top.k = "clear" /\ Top.pc = "loop"
    /\ LET f == Top
           todo == Entries(f.ctx) \ f.seen
       IN
       \/ \E r \in todo :
             LET f1 == [f EXCEPT !.seen = @ \cup {r}] IN
             IF ~get_declared(rms, r)
             THEN /\ Raise(stack, assets, "Disposal:NoManager", "engine", r)
                  /\ UNCHANGED << rms, deferred_injection, deferred_creation,
                                  log, started, clear_marks >>
             ELSE IF ~rms[r].dispSet
             THEN /\ stack' = SetTop(stack, f1)
                  /\ UNCHANGED << rms, assets, deferred_injection,
                                  deferred_creation, result, log, started,
                                  clear_marks >>
             ELSE /\ Started(assets[SlotOf(f.ctx, r)].obj) < MaxDisposals
                  /\ stack' = Append(SetTop(stack, f1),
                                     CallFrame("disp", r, 0, SlotOf(f.ctx, r),
                                               assets[SlotOf(f.ctx, r)].obj))
                  /\ log' = AddLog(log, assets[SlotOf(f.ctx, r)].obj,
                                   <<"disp_begin", r, 0>>)
                  /\ UNCHANGED << rms, assets, deferred_injection,
                                  deferred_creation, result, started,
                                  clear_marks >>
       \/ /\ todo \cap f.orig = {}
          /\ assets' = erase_all(assets, f.ctx)
          /\ stack' = <<>>
          /\ result' = [result EXCEPT !.st = "ok"]
          /\ deferred_injection' =
                 MarkStale(deferred_injection, f.ctx, f.origin = "container")
          /\ deferred_creation' =
                 MarkStale(deferred_creation, f.ctx, f.origin = "container")
          /\ rms' = IF f.origin = "container" THEN [r \in Res |-> NoManager]
                    ELSE rms
          /\ clear_marks' = IF f.origin = "container"
                            THEN Append(clear_marks, Len(other))
                            ELSE clear_marks
          /\ UNCHANGED << log, started >>
    /\ UNCHANGED << scopeOf, other, returned, faults >>

\* the disposer returns to the loop of context::clear
DisposerReturn ==
    /\ KeepScopes
    /\ stack # <<>>
    /\ Top.k = "call" /\ Top.pc = "disp"
    /\ Len(Top.args) = Len(CallDeps(Top))
    /\ log' = AddLog(log, Top.self, <<"disp", Top.r, 0>>)
    /\ stack' = Pop(stack)
    /\ UNCHANGED << scopeOf, rms, assets, deferred_injection, deferred_creation,
                    result, other, returned, faults, started >>

\* do_deferred takes a record whose asset or manager has been freed.  What
\* it reads there is undefined: DDLoop covers the outcome in which the
\* storage reads as the asset and manager now at that place, this action the
\* outcome in which it reads as an asset outside the awaited phase (the
\* record has no effect, count++).
DDStale ==
    /\ KeepScopes
    /\ stack # <<>>
    /\ Top.k = "dd" /\ Top.pc = "loop"
    /\ IF InjectionFirst
       THEN /\ deferred_injection[Len(deferred_injection)].stale
            /\ deferred_injection' = Pop(deferred_injection)
            /\ UNCHANGED deferred_creation
       ELSE /\ deferred_creation # <<>>
            /\ deferred_creation[Len(deferred_creation)].stale
            /\ deferred_creation' = Pop(deferred_creation)
            /\ UNCHANGED deferred_injection
    /\ stack' = SetTop(stack, [Top EXCEPT !.n = @ + 1])
    /\ UNCHANGED << scopeOf, rms, assets, result, other, log, returned, faults,
                    started >>

InitLife ==
    /\ scopeOf \in LifeConfigs
    /\ rms = [r \in Res |-> NoManager]
    /\ assets = [p \in Ptrs |-> IF p = StaticPtr THEN NewAsset ELSE Absent]
    /\ deferred_injection = <<>>
    /\ deferred_creation = <<>>
    /\ stack = <<>>
    /\ result = NoResult
    /\ other = <<>>
    /\ log = <<>>
    /\ returned = [r \in Res |-> {}]
    /\ faults = 0
    /\ started = FALSE
    /\ clear_marks = <<>>
    /\ qsets = [i \in SetIds |-> EmptyQualifiers]
    /\ answer = NoAnswer
    /\ guard_n = 0
    /\ guard_objs = 0
    /\ current_ctx = 0

NextLife ==
    \/ Next
    \/ \E r \in Res, deps \in DepLists : SetDisposer(r, deps)
    \/ GlobalScope_clear
    \/ container_clear
    \/ GuardedScope_ctor
    \/ GuardedScope_dtor
    \/ LocalScope_ctor
    \/ LocalScope_dtor
    \/ ClearLoop
    \/ DisposerReturn
    \/ DDStale

\* the container with disposers, scope objects and the clearing of contexts
SpecLife == InitLife /\ [][NextLife]_vars

(* ------------------------------------------------------------------ *)
(* Copies and moves of GuardedScope objects                              *)
(* ------------------------------------------------------------------ *)
\* GuardedScope(GuardedScope&&) : a new object, the count is left alone
GuardedScope_move_ctor ==
    /\ Operating
    /\ guard_objs > 0 /\ guard_objs < MaxGuards
    /\ guard_objs' = guard_objs + 1
    /\ UNCHANGED << scopeOf, rms, assets, deferred_injection, deferred_creation,
                    stack, result, other, log, returned, faults, started,
                    guard_n, current_ctx, clear_marks, qsets, answer >>

\* operator=(const GuardedScope&) : ++_n, no new object.  The function has
\* no return statement; the caller discards the reference, and the builds
\* return to the caller.
GuardedScope_copy_assign ==
    /\ Operating
    /\ guard_objs > 0
    /\ guard_n < MaxGuards
    /\ guard_n' = guard_n + 1
    /\ UNCHANGED << scopeOf, rms, assets, deferred_injection, deferred_creation,
                    stack, result, other, log, returned, faults, started,
                    guard_objs, current_ctx, clear_marks, qsets, answer >>

\* operator=(GuardedScope&&) : empty body
GuardedScope_move_assign ==
    /\ Operating
    /\ guard_objs > 0
    /\ UNCHANGED vars

\* every resource is bound to GuardedScope<Tag>
InitTurnstile ==
    /\ InitLife
    /\ \A r \in Res : scopeOf[r] = "Guarded"

NextTurnstile ==
    \/ Next
    \/ GuardedScope_ctor
    \/ GuardedScope_dtor
    \/ GuardedScope_move_ctor
    \/ GuardedScope_copy_assign
    \/ GuardedScope_move_assign
    \/ ClearLoop

\* the container whose resources are in one guarded scope, with every way of
\* creating, assigning and destroying GuardedScope objects
SpecTurnstile == InitTurnstile /\ [][NextTurnstile]_vars

(* ------------------------------------------------------------------ *)
(* The container used again after container::clear()                     *)
(* ------------------------------------------------------------------ *)
\* after container::clear() has returned the client registers callbacks
\* again (the next test of a suite, after tearDown)
RegisterAgain ==
    /\ Idle /\ started
    /\ clear_marks # <<>>
    /\ \A r \in Res : ~rms[r].declared
    /\ started' = FALSE
    /\ UNCHANGED << scopeOf, rms, assets, deferred_injection, deferred_creation,
                    stack, result, other, log, returned, faults, clear_marks,
                    guard_n, guard_objs, current_ctx, qsets, answer >>

\* every resource is bound to GuardedScope<Tag>
InitReuse ==
    /\ InitLife
    /\ \A r \in Res : scopeOf[r] = "Guarded"

\* providers only, and no callable raises
NextReuse ==
    \/ \E r \in Res : Declare(r)
    \/ \E r \in Res, deps \in DepLists : SetProvider(r, deps)
    \/ \E r \in Res : TopGet(r)
    \/ GetEnter
    \/ CallArg
    \/ ProviderReturn
    \/ GetDefer
    \/ GetDrain
    \/ container_clear
    \/ RegisterAgain
    \/ GuardedScope_ctor
    \/ GuardedScope_dtor
    \/ ClearLoop

\* the container cleared and configured again, its resources in one guarded
\* scope
SpecReuse == InitReuse /\ [][NextReuse]_vars

(* ------------------------------------------------------------------ *)
(* The client of the sets of qualifiers                                  *)
(* ------------------------------------------------------------------ *)
\* the container is left alone, with its resources in GlobalScope
InitQual ==
    /\ InitLife
    /\ \A r \in Res : scopeOf[r] = "Global"

NextQual ==
    \/ \E i \in SetIds, init \in InitLists : QConstruct(i, init)
    \/ \E i \in SetIds, q \in Quals : QUpdate(i, q)
    \/ \E i \in SetIds, q \in Quals : QDeleteSimilar(i, q)
    \/ \E i \in SetIds, q \in Quals : QDeleteEqual(i, q)
    \/ \E i \in SetIds : QClear(i)
    \/ \E i, j \in SetIds : QMatches(i, j)
    \/ \E i \in SetIds, q \in Quals : QContains(i, q)

\* two sets of qualifiers under every sequence of calls
SpecQual == InitQual /\ [][NextQual]_vars

(* ------------------------------------------------------------------ *)
(* Requests that run to their end                                        *)
(* ------------------------------------------------------------------ *)
\* one step of the code of a request: the engine is sequential code, and a
\* user callable that has been called returns or raises
EngineStep ==
    \/ GetEnter
    \/ CallArg
    \/ CallRaise
    \/ ProviderReturn
    \/ GetDefer
    \/ GetDrain
    \/ DDLoop
    \/ InjectorReturn
    \/ DDPostInject
    \/ InitializerReturn

\* the client requests an instance while the providers can still return the
\* instances one request needs (one per resource: a second provisioning of
\* a resource needs a drop, which ends the request)
TopGetWithin(r) ==
    /\ Len(other) + Cardinality(Res) <= MaxInst
    /\ TopGet(r)

\* resources bound to global, guarded or local scopes
InitRun == InitLife

NextRun ==
    \/ \E r \in Res : Declare(r)
    \/ \E r \in Res, deps \in DepLists : SetProvider(r, deps)
    \/ \E r \in Res, deps \in DepLists : AddInjector(r, deps)
    \/ \E r \in Res, deps \in DepLists : SetInitializer(r, deps)
    \/ \E r \in Res : TopGetWithin(r)
    \/ GuardedScope_ctor
    \/ LocalScope_ctor
    \/ EngineStep

\* requests on resources of global, guarded and local scopes, every step of
\* a running request being taken eventually
SpecRun == InitRun /\ [][NextRun]_vars /\ WF_vars(EngineStep)

(* ------------------------------------------------------------------ *)
(* Disposers with resource arguments                                     *)
(* ------------------------------------------------------------------ *)
\* dispose(r, func, deps...) called at any time between requests, also after
\* instances exist
RegisterDisposer(r, deps) ==
    /\ Idle
    /\ ~rms[r].dispSet
    /\ rms' = disposer(rms, r, deps)
    /\ KeepEngine

\* both resources in GlobalScope
InitDisposal ==
    /\ InitLife
    /\ \A r \in Res : scopeOf[r] = "Global"

NextDisposal ==
    \/ \E r \in Res, deps \in DepLists : SetProvider(r, deps)
    \/ \E r \in Res, deps \in DepLists : RegisterDisposer(r, deps)
    \/ \E r \in Res : TopGet(r)
    \/ GetEnter
    \/ CallArg
    \/ ProviderReturn
    \/ GetDefer
    \/ GetDrain
    \/ GlobalScope_clear
    \/ ClearLoop
    \/ DisposerReturn

\* providers and disposers on the resources of the global context, and
\* GlobalScope::clear()
SpecDisposal == InitDisposal /\ [][NextDisposal]_vars

(* ------------------------------------------------------------------ *)
(* Properties                                                           *)
(* ------------------------------------------------------------------ *)
Insts == 1..Len(log)
\* the resource whose provider returned instance i
ResOf(i) == log[i][1][2]
\* the calls of its own resource's injectors and initializer that completed
\* on instance i, in order
Completed(i) ==
    LET RECURSIVE F(_)
        F(sq) == IF sq = <<>> THEN <<>>
                 ELSE IF Head(sq)[1] \in {"inj", "init"} /\ Head(sq)[2] = ResOf(i)
                      THEN << Head(sq) >> \o F(Tail(sq))
                      ELSE F(Tail(sq))
    IN F(Tail(log[i]))
\* the calls the registrations of r prescribe for one instance
Prescribed(r) ==
    [j \in 1..Len(rms[r].injectors) |-> <<"inj", r, j>>]
    \o (IF rms[r].initSet THEN << <<"init", r, 0>> >> ELSE <<>>)

\* C1: a client call get(r) that returns read its value from an asset in
\* phase Created or later, never from one still Allocated, Provided or
\* Injected.
InvC1_GetReturnsCreated ==
    result.st = "ok" => result.ph >= created

\* C1 witness: a get returned an instance whose injectors or initializer had
\* been deferred and were run before the return
WitC1_ReturnedAfterDeferredWork ==
    /\ result.st = "ok"
    /\ result.ph = created
    /\ Len(log[result.val]) > 1

\* one step keeps the phase of every asset that is not (re)allocated in it
PhaseStepMonotone ==
    \A p \in Ptrs :
        (assets[p].ph >= allocated /\ assets'[p].ph >= allocated
            /\ assets'[p] # NewAsset)
        => assets'[p].ph >= assets[p].ph

\* C2: the phase of an asset never decreases for as long as the asset exists.
CexC2_PhaseMonotone == [][PhaseStepMonotone]_vars

\* the order of the lifecycle calls of its own resource on instance i: when
\* the initializer starts, every registered injector has completed on i and
\* none is still running, and no injector runs on i afterwards
LifecycleOrder(i) ==
    LET r == ResOf(i)
        lg == log[i]
    IN /\ lg[1] = <<"prov", r, 0>>
       /\ \A k \in 2..Len(lg) :
            lg[k] = <<"init_begin", r, 0>> =>
               /\ \A j \in 1..Len(rms[r].injectors) :
                     \E m \in 2..(k - 1) : lg[m] = <<"inj", r, j>>
               /\ \A m \in 2..(k - 1) :
                     (lg[m][1] = "inj_begin" /\ lg[m][2] = r) =>
                        \E n \in (m + 1)..(k - 1) : lg[n] = <<"inj", r, lg[m][3]>>
               /\ \A m \in (k + 1)..Len(lg) :
                     ~(lg[m][1] \in {"inj_begin", "inj"} /\ lg[m][2] = r)

\* C3: on every instance the provider has completed before any injector of
\* its resource starts, and all injectors of its resource have completed
\* before its initializer starts.
CexC3_ProviderInjectorsInitializer ==
    \A i \in Insts : LifecycleOrder(i)

\* C4: every instance held by an asset in phase Created had each injector
\* registered for its resource completed on it exactly once, in registration
\* order, and then the initializer, if one is registered, exactly once.
CexC4_EachCallbackOnce ==
    \A p \in Ptrs :
        (assets[p].ph = created /\ assets[p].obj # NoInst)
        => Completed(assets[p].obj) = Prescribed(ResOf(assets[p].obj))

\* the instances the provider of r returned
Made(r) == { i \in Insts : ResOf(i) = r }

CexC6_NewScopeFreshInstance ==
    (result.st = "ok" /\ scopeOf[result.r] = "New") =>
        /\ result.val > result.base
        /\ ResOf(result.val) = result.r
        /\ assets[GlobalPtr(result.r)] = Absent

\* r depends on d through its provider / through one of its injectors
ProviderEdge(r, d) == rms[r].provDeps = <<d>>
InjectorEdge(r, d) == \E j \in 1..Len(rms[r].injectors) : rms[r].injectors[j] = <<d>>
\* every dependency of r is d, and there is at least one
DependsOnlyOn(r, d) ==
    /\ rms[r].provSet
    /\ ProviderEdge(r, d) \/ InjectorEdge(r, d)
    /\ rms[r].provDeps \in {<<>>, <<d>>}
    /\ \A j \in 1..Len(rms[r].injectors) : rms[r].injectors[j] \in {<<>>, <<d>>}
    /\ rms[r].initDeps = <<>>
\* A and B of GlobalScope depend on each other, through at least one injector
InjectionCycle ==
    /\ scopeOf["A"] = "Global" /\ scopeOf["B"] = "Global"
    /\ DependsOnlyOn("A", "B") /\ DependsOnlyOn("B", "A")
    /\ ~(ProviderEdge("A", "B") /\ ProviderEdge("B", "A"))

\* a step of the engine or of a user callable
Running ==
    \/ GetEnter \/ CallArg \/ ProviderReturn \/ GetDefer \/ GetDrain
    \/ DDLoop \/ InjectorReturn \/ DDPostInject \/ InitializerReturn

ProviderCycle ==
    \A r \in Res : rms[r].provSet /\ \E d \in Res : ProviderEdge(r, d)

\* C8: on a cycle of provider edges a request that re-enters a resource being
\* provided is detected on entry (no resource has two requests inside the
\* call of its provider), and every get that ends, ends with an Instantiation
\* error whose chain of causes has "cyclical dependency".
CexC8_ProviderCycleDetected ==
    ProviderCycle =>
        /\ \A r \in Res :
              Cardinality({ k \in 1..Len(stack) :
                  stack[k].k = "get" /\ stack[k].r = r /\ stack[k].pc = "provide" }) <= 1
        /\ result.st # "ok"
        /\ result.st = "error" =>
              /\ result.exc[Len(result.exc)] = "Instantiation:Cyclical"
              /\ Head(result.exc) \in {"Instantiation:Error", "Instantiation:Cyclical"}

\* the exceptions of class instantiation_error
InstantiationErrors ==
    {"Instantiation:Undeclared", "Instantiation:NoProvider",
     "Instantiation:Cyclical", "Instantiation:Error"}

\* C9: when the provisioning of the resource requested fails, the client
\* receives an Instantiation error nesting the cause, the context holds no
\* asset for the resource, so that a later get allocates it anew, and whenever
\* no request is running no context holds an asset still in phase Allocated
\* (nothing of a failed provider chain or cycle remains).
InvC9_FailedProvisionDropsAsset ==
    /\ (Idle /\ result.st = "error" /\ result.prov) =>
          /\ Head(result.exc) = "Instantiation:Error"
          /\ Len(result.exc) >= 2
          /\ result.exc[Len(result.exc)] \in (InstantiationErrors \cup {"User"}) \ {"Instantiation:Error"}
          /\ scopeOf[result.r] = "Global" => assets[GlobalPtr(result.r)] = Absent
          /\ get_asset(scopeOf[result.r], assets, result.r).isnew
    /\ Idle => \A r \in Res : assets[GlobalPtr(r)].ph # allocated

\* C9 witness: a get on a GlobalScope resource failed inside the provider of a
\* dependency, two levels of provisioning were unwound
WitC9_NestedProvisionFailed ==
    /\ Idle /\ result.st = "error" /\ result.prov
    /\ scopeOf[result.r] = "Global"
    /\ Len(result.exc) >= 3
    /\ result.at # result.r

\* C10: when an injector or the initializer of a resource raised, the client
\* receives an Instantiation error nesting the exception of the callable, and
\* the context holds no asset for that resource any more.
CexC10_FailedInjectionDropsAsset ==
    (Idle /\ result.st = "error" /\ result.what \in {"inj", "init"}) =>
        /\ Head(result.exc) = "Instantiation:Error"
        /\ result.exc[Len(result.exc)] = "User"
        /\ scopeOf[result.at] = "Global" => assets[GlobalPtr(result.at)] = Absent

(* ------------------------------------------------------------------ *)
(* C11: a request for an undeclared resource                            *)
(* ------------------------------------------------------------------ *)
\* C11: once the client's get(r) on a resource without a manager is over, it
\* has failed with the instantiation error "Undeclared resource", nested in
\* nothing; r still has no manager, the context of r's scope has no asset for
\* r, and no provider has run.
InvC11_UndeclaredGetFails ==
    (Idle /\ started /\ ~rms[result.r].declared) =>
        /\ result.st = "error"
        /\ result.exc = << "Instantiation:Undeclared" >>
        /\ result.at = result.r
        /\ scopeOf[result.r] = "Global" => assets[GlobalPtr(result.r)] = Absent
        /\ Len(other) = result.base

\* an undeclared resource of the global scope was requested, next to a
\* declared one, and the request is over
WitC11_UndeclaredRequested ==
    /\ Idle /\ started
    /\ ~rms[result.r].declared
    /\ scopeOf[result.r] = "Global"
    /\ result.st = "error"
    /\ \E q \in Res : rms[q].declared

(* ------------------------------------------------------------------ *)
(* C12: the deferred queues when the client's request returns           *)
(* ------------------------------------------------------------------ *)
\* C12: when the client's get(r) has returned a value, deferred_injection
\* and deferred_creation are both empty.
CexC12_QueuesDrainedOnReturn ==
    (Idle /\ result.st = "ok") =>
        deferred_injection = <<>> /\ deferred_creation = <<>>

(* ------------------------------------------------------------------ *)
(* C13: check_consistency and the cycles of the phase event graph       *)
(* ------------------------------------------------------------------ *)
\* the edges of the phase event graph of the declared resources, as the
\* claim lists them: an edge <<a, b>> says "a requires b"
PhaseEventGraph ==
    LET D == { r \in Res : rms[r].declared }
        From(r) ==
            { << rsevent(provided, r), rsevent(provided, d) >> :
                 d \in SeqToSet(rms[r].provDeps) }
            \cup { << rsevent(injected, r), rsevent(provided, d) >> :
                 d \in SeqToSet(Flatten(rms[r].injectors)) }
            \cup { << rsevent(created, r), rsevent(injected, d) >> :
                 d \in SeqToSet(rms[r].initDeps) }
            \cup { << rsevent(disposed, r), rsevent(created, d) >> :
                 d \in SeqToSet(rms[r].dispDeps) }
            \cup { << rsevent(disposed, d), rsevent(disposed, r) >> :
                 d \in SeqToSet(rms[r].dispDeps) }
    IN { << rsevent(ph, r), rsevent(ph - 1, r) >> : ph \in provided..disposed, r \in D }
       \cup UNION { From(r) : r \in D }

RECURSIVE ReachFrom(_, _)
\* the events reachable from the set S along the edges E (S included)
ReachFrom(E, S) ==
    LET S2 == S \cup { e[2] : e \in { x \in E : x[1] \in S } }
    IN IF S2 = S THEN S ELSE ReachFrom(E, S2)

\* the edge e of E lies on a directed cycle (a self-loop is one)
OnCycle(E, e) == e \in E /\ e[1] \in ReachFrom(E, {e[2]})

\* C13: for a configuration the client has built, check_consistency returns
\* false exactly when the phase event graph (intra-resource chain, provider,
\* injector, initializer and disposer edges) has a directed cycle, and then
\* the report has a "Cyclical dependency" line whose two endpoints are an
\* edge on a cycle of that graph.
CexC13_FalseIffCycle ==
    (Idle /\ ~started) =>
        \A o \in RmsOrders(rms) :
            LET c == check_consistency(rms, o) IN
            /\ ~c.ok <=> (\E e \in PhaseEventGraph : OnCycle(PhaseEventGraph, e))
            /\ ~c.ok => \E i \in 1..Len(c.report) :
                           /\ c.report[i].text = "Cyclical dependency"
                           /\ OnCycle(PhaseEventGraph,
                                      <<c.report[i].node, c.report[i].r>>)

(* ------------------------------------------------------------------ *)
(* C15: check_consistency and undeclared dependencies                   *)
(* ------------------------------------------------------------------ *)
\* the resources named in the injection list of a provider, an injector or
\* a disposer
NamedDependencies ==
    UNION { SeqToSet(rms[r].provDeps) \cup SeqToSet(Flatten(rms[r].injectors))
            \cup SeqToSet(rms[r].dispDeps) : r \in { q \in Res : rms[q].declared } }

\* C15: for a configuration the client has built, every resource that is
\* named as a dependency of a provider, injector or disposer and that the
\* client has not declared has an "undeclared" line in the report of
\* check_consistency, and check_consistency does not return true.
CexC15_UndeclaredReported ==
    (Idle /\ ~started) =>
        \A o \in RmsOrders(rms), d \in NamedDependencies :
            (~rms[d].declared \/ rms[d].implicit) =>
                LET c == check_consistency(rms, o) IN
                /\ ~c.ok
                /\ \E i \in 1..Len(c.report) :
                      c.report[i].text = "undeclared" /\ c.report[i].node = d

(* ------------------------------------------------------------------ *)
(* C14: configurations accepted by check_consistency                    *)
(* ------------------------------------------------------------------ *)
\* the scope of the requested resource was active when the client's call
\* started
WasActive ==
    /\ scopeOf[result.r] = "Guarded" => result.n > 0
    /\ scopeOf[result.r] = "Local" => result.cur # 0

\* check_consistency returns true (whatever the iteration order of rms)
Consistent == \A o \in RmsOrders(rms) : check_consistency(rms, o).ok
Declared == { r \in Res : rms[r].declared }
\* the client's get(r) on a declared resource in an active scope is over,
\* the configuration is accepted and no user callable has raised
RequestedConsistent ==
    /\ Idle /\ result.op = "get" /\ result.st # "none"
    /\ WasActive /\ rms[result.r].declared
    /\ Consistent /\ faults = 0
\* every instance that a get has returned and that is still in the current
\* context of its scope is in phase Created
KeptCreated ==
    \A r \in Declared :
        (scopeOf[r] # "New" /\ is_active(scopeOf[r])) =>
            LET a == assets[SlotOf(CtxOf(scopeOf[r]), r)]
            IN (a # Absent /\ a.obj \in returned[r]) => a.ph = created

ClearOver == Idle /\ result.op = "clear" /\ result.st # "none"

\* C16: when a clear of a context has completed, the context holds no asset
\* and the disposer registered for each instance it held has been invoked on
\* it exactly once; no disposer is ever invoked twice on an instance.
CexC16_ClearDisposesOnce ==
    /\ (ClearOver /\ result.st = "ok") =>
           /\ Entries(result.ctx) = {}
           /\ \A i \in result.had : rms[ResOf(i)].dispSet => Invoked(i) = 1
    /\ \A i \in Insts : Invoked(i) <= 1

\* C17: when a clear is over in which the disposal of one asset failed (the
\* disposer raised, or the manager was not found), the context is empty and
\* the disposers registered for the other instances it held have been
\* invoked.
CexC17_FailedDisposalContinues ==
    (ClearOver /\ result.st \in {"error", "swallowed"}) =>
        /\ Entries(result.ctx) = {}
        /\ \A i \in result.had :
              (ResOf(i) # result.at /\ rms[ResOf(i)].dispSet) => Invoked(i) >= 1

(* ------------------------------------------------------------------ *)
(* C18: requests on an inactive scope                                   *)
(* ------------------------------------------------------------------ *)
\* the client's get(r) started while the scope of r was inactive, and is over
InactiveGetOver ==
    Idle /\ result.op = "get" /\ result.st # "none" /\ ~WasActive

\* a step of a request that started while the scope of its resource was
\* inactive leaves the assets, the instances and the deferred work alone
InactiveGetStep ==
    (stack # <<>> /\ stack[1].k = "get" /\ ~WasActive) =>
        UNCHANGED << assets, other, log, deferred_injection, deferred_creation >>

\* C18: a get(r) on a GuardedScope resource while the count is zero, or on a
\* LocalScope resource while no LocalScope object is alive, fails with
\* inactive_scope_error, nested in nothing; no step of it allocates an asset,
\* runs a provider or changes a context.
InvC18_InactiveScopeGetFails ==
    /\ [](InactiveGetOver =>
             /\ result.st = "error"
             /\ result.exc = << "InactiveScope" >>
             /\ result.at = result.r)
    /\ [][InactiveGetStep]_vars

\* a request on an inactive guarded scope whose context still holds an asset
\* is over, and so is one on an inactive local scope
WitC18_InactiveRequested ==
    /\ InactiveGetOver
    /\ rms[result.r].provSet
    /\ \/ scopeOf[result.r] = "Local"
       \/ scopeOf[result.r] = "Guarded" /\ Entries(<<"guarded">>) # {}


\* a step that creates or destroys a nested GuardedScope object: the count
\* changes and is positive before and after
NestedActivationStep == guard_n > 0 /\ guard_n' > 0 /\ guard_n' # guard_n

\* the assets of the guarded context
GuardedAssets == [r \in Res |-> assets[GuardedPtr(r)]]

\* a nested activation step starts no clear, runs no disposer and leaves
\* every asset of the guarded context as it is
NestedKeepsContext ==
    NestedActivationStep =>
        /\ stack' = stack
        /\ log' = log
        /\ GuardedAssets' = GuardedAssets

\* a get on a GuardedScope resource that returns hands out the instance the
\* asset of the shared context holds
GuardedReturnStep ==
    ( /\ stack # <<>> /\ stack' = <<>>
      /\ result'.op = "get" /\ result'.st = "ok"
      /\ scopeOf[result'.r] = "Guarded" ) =>
        /\ assets'[GuardedPtr(result'.r)] # Absent
        /\ result'.val = assets'[GuardedPtr(result'.r)].obj

\* while the count stays positive an asset of the guarded context that was
\* brought to phase created is left as it is
CreatedStaysStep ==
    \A r \in Res :
        ( /\ guard_n > 0 /\ guard_n' > 0
          /\ assets[GuardedPtr(r)] # Absent
          /\ assets[GuardedPtr(r)].ph = created ) =>
            assets'[GuardedPtr(r)] = assets[GuardedPtr(r)]

\* C19: while the count of GuardedScope objects stays positive there is one
\* context: creating or destroying a nested object starts no clear and leaves
\* its assets alone, a created asset stays in it, and every get(r) that
\* returns hands out the instance that asset holds.
InvC19_NestedActivationsShareContext ==
    /\ [][NestedKeepsContext]_vars
    /\ [][GuardedReturnStep]_vars
    /\ [][CreatedStaysStep]_vars

\* C19 witness: with two GuardedScope objects alive a repeated get on a
\* GuardedScope resource has returned the one instance returned before
WitC19_NestedRepeatedGet ==
    /\ guard_n = 2
    /\ Idle /\ result.op = "get" /\ result.st = "ok" /\ result.rep
    /\ scopeOf[result.r] = "Guarded"
    /\ result.n = 2
    /\ returned[result.r] = { result.val }


(* ------------------------------------------------------------------ *)
(* C20: the last GuardedScope object is destroyed                        *)
(* ------------------------------------------------------------------ *)
\* the destructor of the last GuardedScope object has returned
LastDtorOver ==
    /\ Idle /\ result.op = "clear" /\ result.st # "none"
    /\ result.ctx = <<"guarded">>

\* C20: when the destructor of the last GuardedScope object has returned, the
\* guarded context holds no asset and the disposer registered for each
\* instance it held has been invoked; a get on a GuardedScope resource never
\* returns an instance whose disposal was started (the instance of an earlier
\* activation).
CexC20_LastDtorClearsContext ==
    /\ LastDtorOver =>
           /\ Entries(<<"guarded">>) = {}
           /\ \A i \in result.had : rms[ResOf(i)].dispSet => Invoked(i) >= 1
    /\ ( /\ Idle /\ result.op = "get" /\ result.st = "ok"
         /\ scopeOf[result.r] = "Guarded" ) => Started(result.val) = 0


(* ------------------------------------------------------------------ *)
(* C21: the turnstile count and the live GuardedScope objects            *)
(* ------------------------------------------------------------------ *)
\* C21: whatever GuardedScope objects were constructed, copied, moved,
\* assigned and destroyed, count() is the number of objects alive, and the
\* scope is active exactly while an object is alive.
CexC21_CountIsLiveObjects ==
    /\ guard_n = guard_objs
    /\ is_active("Guarded") <=> guard_objs > 0


(* ------------------------------------------------------------------ *)
(* C22: nested LocalScope objects                                        *)
(* ------------------------------------------------------------------ *)
\* the levels of the LocalScope objects alive
LiveLevels == 1..current_ctx

\* the instances the contexts of two different live LocalScope objects hold
\* for one resource differ
LocalContextsDistinct ==
    \A r \in Res : \A j, k \in LiveLevels :
        ( /\ j < k
          /\ assets[LocalPtr(j, r)] # Absent /\ assets[LocalPtr(k, r)] # Absent
          /\ assets[LocalPtr(k, r)].obj # NoInst ) =>
            assets[LocalPtr(j, r)].obj # assets[LocalPtr(k, r)].obj

\* no disposer has been started on an instance that the context of a live
\* LocalScope object holds
LiveLocalNotDisposed ==
    \A r \in Res : \A k \in LiveLevels :
        ( assets[LocalPtr(k, r)] # Absent /\ assets[LocalPtr(k, r)].obj # NoInst )
            => Started(assets[LocalPtr(k, r)].obj) = 0

\* a get on a LocalScope resource that returns hands out the instance held by
\* the context of the innermost LocalScope object
LocalReturnStep ==
    ( /\ stack # <<>> /\ stack' = <<>>
      /\ result'.op = "get" /\ result'.st = "ok"
      /\ scopeOf[result'.r] = "Local" ) =>
        /\ current_ctx' > 0
        /\ assets'[LocalPtr(current_ctx', result'.r)] # Absent
        /\ result'.val = assets'[LocalPtr(current_ctx', result'.r)].obj

\* an asset in phase created of a LocalScope object that stays alive is left
\* as it is, also while an object nested in it is created, used or destroyed
EnclosingStaysStep ==
    \A r \in Res : \A k \in LiveLevels :
        ( /\ k <= current_ctx'
          /\ assets[LocalPtr(k, r)] # Absent
          /\ assets[LocalPtr(k, r)].ph = created ) =>
            assets'[LocalPtr(k, r)] = assets[LocalPtr(k, r)]

\* C22: the LocalScope objects alive have contexts of their own: a get(r)
\* that returns inside the innermost one hands out the instance of that
\* context, different from the instance an enclosing context holds; the end of
\* a nested object disposes nothing of an enclosing context, whose created
\* asset stays, so get(r) there returns the same instance as before.
InvC22_LocalScopesNest ==
    /\ [](LocalContextsDistinct /\ LiveLocalNotDisposed)
    /\ [][LocalReturnStep]_vars
    /\ [][EnclosingStaysStep]_vars

\* C22 witness: in the outer LocalScope object a repeated get(r) has returned
\* the instance held there, after a nested object, in which get(r) returned a
\* later instance that has been disposed, was destroyed
WitC22_OuterAgainAfterInner ==
    /\ Idle /\ result.op = "get" /\ result.st = "ok" /\ result.rep
    /\ scopeOf[result.r] = "Local"
    /\ current_ctx = 1 /\ result.cur = 1
    /\ \E i \in returned[result.r] :
          /\ i > result.val /\ i <= result.base
          /\ Invoked(i) = 1


(* ------------------------------------------------------------------ *)
(* C23, C24: container::clear()                                          *)
(* ------------------------------------------------------------------ *)
\* a call of container::clear() has returned
ContainerClearReturned ==
    Idle /\ result.op = "clear" /\ result.by = "container" /\ result.st = "ok"

\* C23: when container::clear() has returned, no manager is registered, no
\* context of any scope (global, guarded, local) holds an asset, and the
\* disposer registered for each instance a context held has been invoked.
CexC23_ClearEmptiesEveryScope ==
    ContainerClearReturned =>
        /\ \A r \in Res : ~rms[r].declared
        /\ \A c \in Contexts : Entries(c) = {}
        /\ \A i \in result.due : Invoked(i) >= 1


\* the step in which container::clear() returns leaves no manager registered
ClearReturnStep ==
    Len(clear_marks') > Len(clear_marks) => \A r \in Res : rms'[r] = NoManager

\* C24: when container::clear() returns no manager is registered, and a
\* get(r) that returns afterwards (the client has registered again) hands out
\* an instance made after the clear: none that existed before survives.
CexC24_NothingSurvivesClear ==
    /\ [][ClearReturnStep]_vars
    /\ []( ( /\ Idle /\ result.op = "get" /\ result.st = "ok"
             /\ clear_marks # <<>> ) =>
                result.val > clear_marks[Len(clear_marks)] )


(* ------------------------------------------------------------------ *)
(* C25: declare and get_declared                                         *)
(* ------------------------------------------------------------------ *)
\* sequence p is a prefix of sequence q
IsPrefix(p, q) == Len(p) <= Len(q) /\ \A i \in 1..Len(p) : p[i] = q[i]

\* manager b is manager a with, at most, more registered
KeepsRegistrations(a, b) ==
    /\ b.declared
    /\ a.provSet => b.provSet
    /\ IsPrefix(a.injectors, b.injectors)
    /\ a.initSet => (b.initSet /\ b.initDeps = a.initDeps)
    /\ a.dispSet => b.dispSet

\* no step replaces the manager of a declared resource by a new one or takes
\* a registration from it
DeclaredStaysStep ==
    \A r \in Res : rms[r].declared => KeepsRegistrations(rms[r], rms'[r])

\* a step of a request (get_declared is all it calls on the registry)
\* creates no manager and changes none
RequestKeepsRegistryStep ==
    (stack # <<>> \/ stack' # <<>>) => rms' = rms

\* C25: declaring a resource again, directly or by registering a callback or
\* naming it as a dependency, keeps its one manager with what is registered
\* in it; a request creates no manager, and get on a resource without a
\* manager fails.
InvC25_DeclareIdempotent ==
    /\ [][DeclaredStaysStep]_vars
    /\ [][RequestKeepsRegistryStep]_vars
    /\ []( ( /\ Idle /\ result.op = "get" /\ result.st # "none"
             /\ ~rms[result.r].declared ) => result.st = "error" )

\* C25 witness: a resource was declared by the registration of its provider
\* and again by that of an injector and has both, and a get on a resource
\* that was never declared has failed and left it without a manager
WitC25_DeclaredAgainAndUndeclaredGet ==
    /\ \E r \in Res : rms[r].provSet /\ Len(rms[r].injectors) >= 1
    /\ Idle /\ result.op = "get" /\ result.st = "error"
    /\ ~rms[result.r].declared


(* ------------------------------------------------------------------ *)
(* C26: set_provider on a manager that has a provider                    *)
(* ------------------------------------------------------------------ *)
\* the resources some registered callable of some manager is bound to
BoundSomewhere ==
    UNION { SeqToSet(rms[r].provDeps) \cup SeqToSet(Flatten(rms[r].injectors))
              \cup SeqToSet(rms[r].initDeps) \cup SeqToSet(rms[r].dispDeps)
            : r \in Res }

\* a step that changes the provider of r leaves the injectors, the
\* initializer and the disposer of r as they are
ProviderOnlyStep ==
    \A r \in Res :
        ( rms[r].declared /\ rms'[r].provDeps # rms[r].provDeps ) =>
            /\ rms'[r].provSet
            /\ rms'[r].injectors = rms[r].injectors
            /\ rms'[r].initSet = rms[r].initSet
            /\ rms'[r].initDeps = rms[r].initDeps
            /\ rms'[r].initInjected = rms[r].initInjected
            /\ rms'[r].dispSet = rms[r].dispSet
            /\ rms'[r].dispDeps = rms[r].dispDeps
            /\ rms'[r].dispInjected = rms[r].dispInjected

TagUnique(S) ==
    \A t \in { q.tag : q \in Quals } :
        Cardinality({ x \in S.qset : x.tag = t }) <= 1
InvC27_OnePerTagAndUpdateReplaces ==
    /\ \A i \in SetIds : TagUnique(qsets[i])
    /\ (answer.op = "update" /\ contains_similar(answer.before, answer.q))
        => /\ contains(qsets[answer.i], answer.q)
           /\ size(qsets[answer.i]) = size(answer.before)
\* update(q) has replaced a similar, unequal member of a set of two or more
WitC27_SimilarReplaced ==
    /\ answer.op = "update"
    /\ contains_similar(answer.before, answer.q)
    /\ ~ contains(answer.before, answer.q)
    /\ size(answer.before) >= 2
    /\ contains(qsets[answer.i], answer.q)


\* C28 -- A.matches(B) returns true exactly when every member of A matches
\* some member of B and every member of B is matched by some member of A,
\* where All matches every qualifier and any other qualifier only an equal
\* one; and when A does not hold All, A.matches(B) returns what A == B does.
MatchesQualifier(a, b) == a = All \/ a = b
AtDrain == stack # <<>> /\ Top.k = "dd" /\ Top.pc = "loop"
TakesInjection ==
    /\ AtDrain
    /\ deferred_injection # <<>>
    /\ deferred_injection' = Pop(deferred_injection)
TakesCreation ==
    /\ AtDrain
    /\ deferred_creation # <<>>
    /\ deferred_creation' = Pop(deferred_creation)
CreationPreferredStep == TakesInjection => deferred_creation = <<>>
InjectionPreferredStep ==
    /\ TakesCreation => deferred_injection = <<>>
    /\ (AtDrain /\ deferred_injection # <<>>) =>
           /\ deferred_injection' = Pop(deferred_injection)
           /\ deferred_creation' = deferred_creation
InvC34_HashIsXorOfMembers ==
    /\ \A i \in SetIds : qsets[i].hcode = xor_all(qsets[i].qset)
    /\ \A i \in SetIds : qsets[i].qset = {} => qsets[i].hcode = 0
    /\ \A i, j \in SetIds :
           set_equals(qsets[i], qsets[j]) => qsets[i].hcode = qsets[j].hcode
\* two objects hold equal sets of two members, one of them after a mutator
\* changed it
WitC34_EqualSetsAfterMutation ==
    /\ answer.op \in { "update", "delete_similar", "delete_equal" }
    /\ qsets[answer.i] # answer.before
    /\ \E j \in SetIds : j # answer.i /\ set_equals(qsets[answer.i], qsets[j])
    /\ size(qsets[answer.i]) >= 2


\* C31 -- at the moment a provider or an injector is invoked every resource
\* of its injection list has an asset in phase provided or later; at the
\* moment an initializer is invoked every resource of its injection list is
\* in phase injected or later; at the moment a disposer is invoked every
\* resource of its injection list is in phase created.
\* the phase of the asset a request for d would find (-1: there is none)
PhaseOf(d) ==
    IF scopeOf[d] = "New" THEN assets[StaticPtr].ph
    ELSE IF ~ is_active(scopeOf[d]) THEN -1
    ELSE assets[SlotOf(CtxOf(scopeOf[d]), d)].ph
\* the std::bind object has evaluated its arguments and calls the callable
Invoking ==
    stack # <<>> /\ Top.k = "call" /\ Len(Top.args) = Len(CallDeps(Top))
\* call::injected of the call that is running
InjectionList(f) ==
    CASE f.pc = "prov" -> rms[f.r].provInjected
      [] f.pc = "inj" -> rms[f.r].injectors[f.idx]
      [] f.pc = "init" -> rms[f.r].initInjected
      [] f.pc = "disp" -> rms[f.r].dispInjected
InPhaseFor(what, d) ==
    IF what = "disp" THEN PhaseOf(d) = created
    ELSE PhaseOf(d) >= CallPhase(what) /\ PhaseOf(d) <= created
CexC31_InjectionListInPhase ==
    Invoking =>
        \A k \in 1..Len(InjectionList(Top)) :
            InPhaseFor(Top.pc, InjectionList(Top)[k])


\* C32 -- setting the initializer of r records its resource arguments in
\* the initializer's injection list and nowhere else: afterwards
\* initializer_injections() is the list of the arguments, in order, and the
\* injection lists of the provider, of every injector and of the disposer
\* are what they were.
InitializerSetStep(r) == ~ rms[r].initSet /\ rms'[r].initSet
InitializerRecordsOwnListStep ==
    \A r \in Res :
        InitializerSetStep(r) =>
            /\ rms'[r].initInjected = rms'[r].initDeps
            /\ rms'[r].provInjected = rms[r].provInjected
            /\ rms'[r].injectors = rms[r].injectors
            /\ rms'[r].dispInjected = rms[r].dispInjected
CexC32_InitializerRecordsOwnList == [][InitializerRecordsOwnListStep]_vars


\* C33 -- a request for a NewScope resource made while the provider of that
\* same resource is running (directly or through a chain of providers) is
\* stopped by the cycle check of the engine: it never gets as far as calling
\* the provider again.
CexC33_NewScopeCycleDetected ==
    \A i, j \in 1..Len(stack) :
        (/\ i < j
         /\ stack[i].k = "get" /\ stack[i].pc = "provide"
         /\ stack[j].k = "get" /\ stack[j].r = stack[i].r
         /\ scopeOf[stack[i].r] = "New")
        => stack[j].pc = "enter"


\* C35 -- in every state, also after a get failed, after a context was
\* cleared and after container::clear(), every record of the two deferred
\* work stacks refers to an asset that is in a context and to a manager that
\* is registered.
RecordAlive(w) ==
    /\ ~ w.stale
    /\ assets[w.ass] # Absent
    /\ get_declared(rms, w.rm)
CexC35_DeferredRecordsAlive ==
    /\ \A k \in 1..Len(deferred_injection) : RecordAlive(deferred_injection[k])
    /\ \A k \in 1..Len(deferred_creation) : RecordAlive(deferred_creation[k])


\* C36 -- whenever no request is in progress, every asset stored in a
\* context in phase provided or injected has a record in one of the deferred
\* work stacks, so that a later get can bring it to phase created.
HasRecord(p) ==
    \/ \E k \in 1..Len(deferred_injection) : deferred_injection[k].ass = p
    \/ \E k \in 1..Len(deferred_creation) : deferred_creation[k].ass = p
CexC36_UnfinishedHasRecord ==
    Idle =>
        \A p \in Ptrs \ { StaticPtr } :
            assets[p].ph \in { provided, injected } => HasRecord(p)


\* C37 -- with resources bound to global, guarded or local scopes and
\* callbacks that terminate, every get call terminates: it returns a value
\* or it raises.
InvC37_EveryGetTerminates ==
    (stack # <<>>) ~> (Idle /\ result.st \in { "ok", "error" })
\* a request ended by the cycle check on an asset re-entered while its
\* provider was running
WitC37_EndedByCycleCheck ==
    /\ Idle
    /\ result.st = "error"
    /\ Len(result.exc) >= 2
    /\ result.exc[Len(result.exc)] = "Instantiation:Cyclical"


\* C38 -- when context::clear() returns, every instance that was provisioned
\* while it ran (for a disposer's resource argument that had no asset in the
\* context) and whose resource has a disposer has been disposed exactly
\* once.
ClearReturnsStep ==
    /\ stack # <<>> /\ Top.k = "clear"
    /\ stack' = <<>> /\ result'.st = "ok"
ProvisionedInClearDisposedStep ==
    ClearReturnsStep =>
        \A i \in (result.base + 1)..Len(other) :
            rms[ResOf(i)].dispSet => Invoked(i) = 1
CexC38_ProvisionedInClearDisposed == [][ProvisionedInClearDisposedStep]_vars


\* C39 -- a get that fails while a provider is running removes only the
\* assets whose own provisioning failed: every instance that was provided
\* during the failed request for a resource of a scope with a context is
\* still in its context, in phase provided or later, with a record in a
\* deferred work stack as long as it is not created; the provider of such a
\* resource is never run again, and a later get of it that returns, returns
\* that instance in phase created.
SlotNow(d) == SlotOf(CtxOf(scopeOf[d]), d)
FailedInProvider ==
    Idle /\ result.op = "get" /\ result.st = "error" /\ result.prov
HoldsOwnValue(f) ==
    /\ f.k = "get" /\ scopeOf[f.r] = "New"
    /\ f.pc \in { "defer", "drain" }
NewScopeAssetKeptStep ==
    \A k \in 1..Len(stack) :
        (/\ HoldsOwnValue(stack[k])
         /\ Top.k = "get" /\ Top.r # stack[k].r /\ scopeOf[Top.r] = "New"
         /\ Len(stack') >= k
         /\ HoldsOwnValue(stack'[k]) /\ stack'[k].r = stack[k].r)
        => /\ assets'[stack[k].ptr].obj = assets[stack[k].ptr].obj
           /\ assets'[stack[k].ptr].ph >= assets[stack[k].ptr].ph
CexC40_NewScopeAssetKept == [][NewScopeAssetKeptStep]_vars

====
